---- MODULE Spec2Model ----
(***************************************************************************)
(* Run-aware placeholder substitution of exec_reports/replace.py.          *)
(*                                                                         *)
(* A text is a sequence of one-character strings; a scope (paragraph) is   *)
(* a sequence of run texts; the replacement mapping is the sequence of the *)
(* dict's items in iteration (insertion) order.  Offsets are 0-based, as   *)
(* in the source.                                                          *)
(***************************************************************************)
EXTENDS Integers, Sequences, FiniteSets, TLC

VARIABLES
    runs,          \* the run texts of the scope handed to replace_text_in_runs
    replacements,  \* the mapping: items [placeholder, value] in dict order
    full_text,     \* the local variable full_text (lines 18, 67)
    pc,            \* position in replace_text_in_runs
    idx,           \* index of the next item of the cross-run loop (line 20)
    runs0,         \* history: the run texts before the first call
    runs1,         \* history: the run texts when the first call returned
    written,       \* history: indices of the runs whose text the first call assigned
    doc,           \* the document handed to replace_all_text
    doc0,          \* history: the document before the call
    stage,         \* position in replace_all_text
    sec,           \* index of the section of the loop of line 85
    pdt,           \* one call of process_document_template (replace.py)
    merge,         \* one call of merge_shortlist_documents (utils/merge_doc.py)
    logger,        \* the DatabaseLogger singleton and the log_mcp_tool wrapper around a tool
    gsr            \* one call of generate_shortlist_report (server.py)

runvars == <<runs, full_text, pc, idx, runs0, runs1, written>>

docvars == <<doc, doc0, stage, sec>>

orchvars == <<pdt, merge, logger, gsr>>

vars == <<replacements, runvars, docvars, orchvars>>

\* the value of a variable whose function is not being followed
Idle == [pc |-> "none"]

----------------------------------------------------------------------------
(* Bounds of the inputs. *)

MaxAtoms == 2

MaxRuns == 3

MaxElems == 2

\* candidates of a shortlist
MaxCandidates == 2

\* tool invocations over the lifetime of the logger
MaxCalls == 8

----------------------------------------------------------------------------
(* Python string operations. *)

Min(S) == CHOOSE x \in S : \A y \in S : x <= y

Max2(a, b) == IF a >= b THEN a ELSE b

Min2(a, b) == IF a <= b THEN a ELSE b

\* s[lo:hi] for 0 <= lo, hi <= len(s)
Slice(s, lo, hi) == SubSeq(s, lo + 1, hi)

\* ''.join(texts)
RECURSIVE Join(_)
Join(texts) ==
    IF texts = <<>> THEN <<>> ELSE Head(texts) \o Join(Tail(texts))

\* s.find(sub): the lowest 0-based index of sub in s, -1 when absent
Find(s, sub) ==
    LET hits == {p \in 0..(Len(s) - Len(sub)) : Slice(s, p, p + Len(sub)) = sub}
    IN  IF hits = {} THEN -1 ELSE Min(hits)

\* sub in s
In(sub, s) ==
    \E p \in 0..(Len(s) - Len(sub)) : Slice(s, p, p + Len(sub)) = sub

\* a plausible slip: only the first occurrence is replaced (str.replace(old, new, 1))
ReplaceFirst(s, old, new) ==
    LET p == Find(s, old)
    IN  IF p < 0 THEN s
        ELSE Slice(s, 0, p) \o new \o Slice(s, p + Len(old), Len(s))

\* s.replace(old, new): left to right, every non-overlapping occurrence
RECURSIVE ReplaceScan(_, _, _)
ReplaceScan(s, old, new) ==
    IF Len(s) < Len(old) THEN s
    ELSE IF SubSeq(s, 1, Len(old)) = old
         THEN new \o ReplaceScan(SubSeq(s, Len(old) + 1, Len(s)), old, new)
         ELSE <<Head(s)>> \o ReplaceScan(Tail(s), old, new)

Replace(s, old, new) == ReplaceScan(s, old, new)

----------------------------------------------------------------------------
(* replace_text_in_runs, first loop (lines 9-15). *)

\* lines 12-15 from item k on; st = [text |-> original_text, wrote |-> run.text was assigned]
RECURSIVE LocalRunFrom(_, _, _)
LocalRunFrom(st, repl, k) ==
    IF k > Len(repl) THEN st
    ELSE IF In(repl[k].placeholder, st.text)
         THEN LocalRunFrom([text  |-> Replace(st.text, repl[k].placeholder, repl[k].value),
                            wrote |-> TRUE], repl, k + 1)
         ELSE LocalRunFrom(st, repl, k + 1)

\* a plausible slip: run.text is assigned for every non-empty run, found or not
LocalRunAlwaysAssign(text, repl) ==
    IF text = <<>> THEN [text |-> text, wrote |-> FALSE]
    ELSE [text  |-> LocalRunFrom([text |-> text, wrote |-> FALSE], repl, 1).text,
          wrote |-> TRUE]

\* lines 10-15 for one run
LocalRun(text, repl) ==
    IF text = <<>> THEN [text |-> text, wrote |-> FALSE]
    ELSE LocalRunFrom([text |-> text, wrote |-> FALSE], repl, 1)

\* lines 9-15: the run texts after the first loop
LocalTexts(rs, repl) == [i \in 1..Len(rs) |-> LocalRun(rs[i], repl).text]

\* lines 9-15: the runs the first loop assigned
LocalWritten(rs, repl) == {i \in 1..Len(rs) : LocalRun(rs[i], repl).wrote}

----------------------------------------------------------------------------
(* replace_text_in_runs, second loop (lines 20-67), one item. *)

\* lines 31-36: run_start and run_end of run i
RunStart(rs, i) == Len(Join(SubSeq(rs, 1, i - 1)))

RunEnd(rs, i) == RunStart(rs, i) + Len(rs[i])

\* lines 39-42: the indices of affected_runs
AffectedRuns(rs, placeholder_start, placeholder_end) ==
    {i \in 1..Len(rs) :
        RunStart(rs, i) < placeholder_end /\ RunEnd(rs, i) > placeholder_start}

\* a plausible slip: the value is put into every affected run
NewTextValueInEach(text, start, placeholder_start, placeholder_end, value, first) ==
    LET placeholder_in_run_start == Max2(0, placeholder_start - start)
        placeholder_in_run_end   == Min2(Len(text), placeholder_end - start)
    IN  Slice(text, 0, placeholder_in_run_start) \o value
            \o Slice(text, placeholder_in_run_end, Len(text))

\* a plausible slip: a subsequent run loses everything from the overlap on
NewTextCutTail(text, start, placeholder_start, placeholder_end, value, first) ==
    LET placeholder_in_run_start == Max2(0, placeholder_start - start)
        placeholder_in_run_end   == Min2(Len(text), placeholder_end - start)
    IN  IF first
        THEN Slice(text, 0, placeholder_in_run_start) \o value
                 \o Slice(text, placeholder_in_run_end, Len(text))
        ELSE Slice(text, 0, placeholder_in_run_start)

\* lines 49-64: new_text of one affected run
NewText(text, start, placeholder_start, placeholder_end, value, first) ==
    LET placeholder_in_run_start == Max2(0, placeholder_start - start)
        placeholder_in_run_end   == Min2(Len(text), placeholder_end - start)
    IN  IF first
        THEN Slice(text, 0, placeholder_in_run_start) \o value
                 \o Slice(text, placeholder_in_run_end, Len(text))
        ELSE Slice(text, 0, placeholder_in_run_start)
                 \o Slice(text, placeholder_in_run_end, Len(text))

\* lines 21-64: the runs the iteration assigns
CrossWritten(rs, ft, placeholder) ==
    IF In(placeholder, ft) /\ Find(ft, placeholder) >= 0
    THEN AffectedRuns(rs, Find(ft, placeholder), Find(ft, placeholder) + Len(placeholder))
    ELSE {}

\* lines 21-64: the run texts after the iteration for (placeholder, value)
CrossSplice(rs, ft, placeholder, value) ==
    LET placeholder_start == Find(ft, placeholder)
        placeholder_end   == placeholder_start + Len(placeholder)
        affected          == CrossWritten(rs, ft, placeholder)
    IN  [i \in 1..Len(rs) |->
            IF i \in affected
            THEN NewText(rs[i], RunStart(rs, i), placeholder_start, placeholder_end,
                         value, i = Min(affected))
            ELSE rs[i]]

\* a plausible slip: runs left empty are dropped from the paragraph
CrossRunDropEmpty(rs, ft, placeholder, value) ==
    IF In(placeholder, ft)
    THEN SelectSeq(CrossSplice(rs, ft, placeholder, value), LAMBDA t : t # <<>>)
    ELSE rs

CrossRun(rs, ft, placeholder, value) ==
    CrossSplice(rs, ft, placeholder, value)

\* a plausible slip: full_text is computed once before the loop and never again
CrossFullTextStale(rs, ft, placeholder, value) == ft

\* line 67: full_text after the iteration (recomputed only inside the if of line 21)
CrossFullText(rs, ft, placeholder, value) ==
    IF In(placeholder, ft) THEN Join(CrossRun(rs, ft, placeholder, value)) ELSE ft

\* lines 20-67 from item k on
RECURSIVE CrossLoop(_, _, _, _)
CrossLoop(rs, ft, repl, k) ==
    IF k > Len(repl) THEN rs
    ELSE CrossLoop(CrossRun(rs, ft, repl[k].placeholder, repl[k].value),
                   CrossFullText(rs, ft, repl[k].placeholder, repl[k].value),
                   repl, k + 1)

\* lines 6-67: the run texts after one whole call
ReplaceTextInRuns(rs, repl) ==
    LET local == LocalTexts(rs, repl)
    IN  CrossLoop(local, Join(local), repl, 1)

----------------------------------------------------------------------------
(* replace_all_text (lines 69-104).  A paragraph is the sequence of its run  *)
(* texts, a cell the sequence of its paragraphs, a table the sequence of its *)
(* rows, a row the sequence of its cells.                                    *)

\* lines 73-74 (and 81-82, 89-90, 95-96, 103-104): a paragraph without runs is skipped
ReplaceParagraph(paragraph, repl) ==
    IF paragraph # <<>> THEN ReplaceTextInRuns(paragraph, repl) ELSE paragraph

\* a plausible slip: the runs of all the paragraphs are handed to the engine
\* as one scope
ReplaceParagraphsJoined(paragraphs, repl) ==
    LET all == ReplaceTextInRuns(Join(paragraphs), repl)
    IN  [i \in 1..Len(paragraphs) |->
            SubSeq(all, Len(Join(SubSeq(paragraphs, 1, i - 1))) + 1,
                   Len(Join(SubSeq(paragraphs, 1, i))))]

\* lines 72-74, 88-90, 94-96: for paragraph in <x>.paragraphs
ReplaceParagraphs(paragraphs, repl) ==
    [i \in 1..Len(paragraphs) |-> ReplaceParagraph(paragraphs[i], repl)]

\* a plausible slip: only the first cell of each row is visited
ReplaceTablesFirstCell(tables, repl) ==
    [t \in 1..Len(tables) |->
        [r \in 1..Len(tables[t]) |->
            [c \in 1..Len(tables[t][r]) |->
                IF c = 1 THEN ReplaceParagraphs(tables[t][r][c], repl)
                ELSE tables[t][r][c]]]]

\* lines 77-82, 99-104: for table / for row / for cell / for paragraph
ReplaceTables(tables, repl) ==
    [t \in 1..Len(tables) |->
        [r \in 1..Len(tables[t]) |->
            [c \in 1..Len(tables[t][r]) |->
                ReplaceParagraphs(tables[t][r][c], repl)]]]

\* a plausible slip: the header is treated like the footer, tables included
ReplaceHeaderAndTables(header, repl) ==
    [paragraphs |-> ReplaceParagraphs(header.paragraphs, repl),
     tables     |-> ReplaceTables(header.tables, repl)]

\* lines 87-90: the header's paragraphs; header.tables is never read
ReplaceHeader(header, repl) ==
    [header EXCEPT !.paragraphs = ReplaceParagraphs(@, repl)]

\* lines 93-96: the footer's paragraphs
ReplaceFooter(footer, repl) ==
    [footer EXCEPT !.paragraphs = ReplaceParagraphs(@, repl)]

\* lines 99-104: the footer's tables
ReplaceFooterTables(footer, repl) ==
    [footer EXCEPT !.tables = ReplaceTables(@, repl)]

----------------------------------------------------------------------------
(* Inputs: tokens, mappings and scopes. *)

\* f'{{{k}}}' for the keys a and b (line 144)
TokA == <<"{", "a", "}">>

TokB == <<"{", "b", "}">>

Item(p, v) == [placeholder |-> p, value |-> v]

ValuesA == {<<>>, <<"X">>, TokB}

\* one token with each value; two tokens, in both dict orders, with a plain
\* value for {a} and with a value for {a} that is the text of the token {b}
Mappings ==
    {<<Item(TokA, v)>> : v \in ValuesA}
    \cup {<<Item(TokA, v), Item(TokB, <<"X">>)>> : v \in {<<"X">>, TokB}}
    \cup {<<Item(TokB, <<"X">>), Item(TokA, v)>> : v \in {<<"X">>, TokB}}

Atoms == {TokA, TokB, <<"{">>, <<"}">>, <<"a">>}

Texts == UNION {{Join(f) : f \in [1..n -> Atoms]} : n \in 0..MaxAtoms}

\* the ways of cutting text t into n runs (runs may be empty)
Cuts(t, n) ==
    {c \in [0..n -> 0..Len(t)] :
        /\ c[0] = 0
        /\ c[n] = Len(t)
        /\ \A i \in 1..n : c[i - 1] <= c[i]}

Scopes ==
    UNION {UNION {{[i \in 1..n |-> Slice(t, c[i - 1], c[i])] : c \in Cuts(t, n)} :
                      n \in 1..MaxRuns} : t \in Texts}

\* no document: the state of the document variables while one scope is followed
NoDoc == [paragraphs |-> <<>>, tables |-> <<>>, sections |-> <<>>]

----------------------------------------------------------------------------
(* One scope through replace_text_in_runs, then a second call on the result. *)

Init ==
    /\ runs \in Scopes
    /\ replacements \in Mappings
    /\ full_text = <<>>
    /\ pc = "local"
    /\ idx = 0
    /\ runs0 = runs
    /\ runs1 = <<>>
    /\ written = {}
    /\ doc = NoDoc
    /\ doc0 = NoDoc
    /\ stage = "none"
    /\ sec = 0
    /\ pdt = Idle
    /\ merge = Idle
    /\ logger = Idle
    /\ gsr = Idle

\* lines 9-18
LocalPass ==
    /\ pc = "local"
    /\ runs' = LocalTexts(runs, replacements)
    /\ written' = LocalWritten(runs, replacements)
    /\ full_text' = Join(runs')
    /\ idx' = 1
    /\ pc' = "cross"
    /\ UNCHANGED <<replacements, runs0, runs1, docvars, orchvars>>

\* lines 20-67, one iteration
CrossStep ==
    /\ pc = "cross"
    /\ idx <= Len(replacements)
    /\ LET placeholder == replacements[idx].placeholder
           value       == replacements[idx].value
       IN  /\ runs' = CrossRun(runs, full_text, placeholder, value)
           /\ full_text' = CrossFullText(runs, full_text, placeholder, value)
           /\ written' = written \cup CrossWritten(runs, full_text, placeholder)
    /\ idx' = idx + 1
    /\ UNCHANGED <<replacements, pc, runs0, runs1, docvars, orchvars>>

\* the loop of line 20 is exhausted: the call returns
Return ==
    /\ pc = "cross"
    /\ idx > Len(replacements)
    /\ pc' = "returned"
    /\ runs1' = runs
    /\ UNCHANGED <<runs, replacements, full_text, idx, runs0, written, docvars, orchvars>>

\* replace_text_in_runs called again on the same runs with the same mapping
SecondCall ==
    /\ pc = "returned"
    /\ runs' = ReplaceTextInRuns(runs, replacements)
    /\ full_text' = Join(runs')
    /\ pc' = "again"
    /\ UNCHANGED <<replacements, idx, runs0, runs1, written, docvars, orchvars>>

Next == LocalPass \/ CrossStep \/ Return \/ SecondCall

Spec == Init /\ [][Next]_vars

----------------------------------------------------------------------------
(* One document through replace_all_text. *)

\* the paragraphs a document is built from: no runs, the token in one run,
\* the token split across two runs, a fragment of the token
ParagraphChoices ==
    {<<>>, <<TokA>>, <<<<"{", "a">>, <<"}">>>>, <<<<"{", "a">>>>}

Kinds == {"body", "table", "header", "header_table", "footer", "footer_table"}

DocMappings == {<<Item(TokA, <<"X">>)>>}

\* an n x n table whose cells each hold the one paragraph p
Table(p, n) == [r \in 1..n |-> [c \in 1..n |-> <<p>>]]

\* the document with n body paragraphs, one n x n table and n sections, every
\* scope of kind k holding the paragraph ch[k]
MakeDoc(ch, n) ==
    [paragraphs |-> [i \in 1..n |-> ch["body"]],
     tables     |-> <<Table(ch["table"], n)>>,
     sections   |-> [s \in 1..n |->
                        [header |-> [paragraphs |-> <<ch["header"]>>,
                                     tables     |-> <<Table(ch["header_table"], n)>>],
                         footer |-> [paragraphs |-> <<ch["footer"]>>,
                                     tables     |-> <<Table(ch["footer_table"], n)>>]]]]

\* the document whose token is divided between neighbouring paragraphs and
\* cells of every kind of scope, next to a scope holding the paragraph other
DividedDoc(other) ==
    LET first  == <<<<"{", "a">>>>
        second == <<<<"}">>>>
        table  == <<<<<<first>>, <<second>>>>, <<<<first, second>>, <<other>>>>>>
    IN  [paragraphs |-> <<first, second, other>>,
         tables     |-> <<table>>,
         sections   |-> <<[header |-> [paragraphs |-> <<first, second>>,
                                       tables     |-> <<Table(other, 1)>>],
                           footer |-> [paragraphs |-> <<first, second, other>>,
                                       tables     |-> <<table>>]]>>]

InitDoc ==
    /\ \/ \E ch \in [Kinds -> ParagraphChoices], n \in 1..MaxElems : doc = MakeDoc(ch, n)
       \/ \E other \in ParagraphChoices : doc = DividedDoc(other)
    /\ doc0 = doc
    /\ replacements \in DocMappings
    /\ stage = "paragraphs"
    /\ sec = 0
    /\ runs = <<>>
    /\ full_text = <<>>
    /\ pc = "none"
    /\ idx = 0
    /\ runs0 = <<>>
    /\ runs1 = <<>>
    /\ written = {}
    /\ pdt = Idle
    /\ merge = Idle
    /\ logger = Idle
    /\ gsr = Idle

\* lines 72-74
BodyParagraphs ==
    /\ stage = "paragraphs"
    /\ doc' = [doc EXCEPT !.paragraphs = ReplaceParagraphs(@, replacements)]
    /\ stage' = "tables"
    /\ UNCHANGED <<replacements, runvars, doc0, sec, orchvars>>

\* lines 77-82
BodyTables ==
    /\ stage = "tables"
    /\ doc' = [doc EXCEPT !.tables = ReplaceTables(@, replacements)]
    /\ stage' = IF Len(doc.sections) = 0 THEN "done" ELSE "header"
    /\ sec' = 1
    /\ UNCHANGED <<replacements, runvars, doc0, orchvars>>

\* lines 87-90, for the section at hand
SectionHeader ==
    /\ stage = "header"
    /\ doc' = [doc EXCEPT !.sections[sec].header = ReplaceHeader(@, replacements)]
    /\ stage' = "footer"
    /\ UNCHANGED <<replacements, runvars, doc0, sec, orchvars>>

\* lines 93-96
SectionFooter ==
    /\ stage = "footer"
    /\ doc' = [doc EXCEPT !.sections[sec].footer = ReplaceFooter(@, replacements)]
    /\ stage' = "footer_tables"
    /\ UNCHANGED <<replacements, runvars, doc0, sec, orchvars>>

\* lines 99-104, then the next section or the end of the loop of line 85
SectionFooterTables ==
    /\ stage = "footer_tables"
    /\ doc' = [doc EXCEPT !.sections[sec].footer = ReplaceFooterTables(@, replacements)]
    /\ sec' = sec + 1
    /\ stage' = IF sec < Len(doc.sections) THEN "header" ELSE "done"
    /\ UNCHANGED <<replacements, runvars, doc0, orchvars>>

NextDoc ==
    BodyParagraphs \/ BodyTables \/ SectionHeader \/ SectionFooter \/ SectionFooterTables

SpecDoc == InitDoc /\ [][NextDoc]_vars

----------------------------------------------------------------------------
(* Vocabulary of the properties, stated on positions and independent of the  *)
(* operators above.                                                          *)

\* the 1-based positions at which tok occurs in s
Occurrences(tok, s) ==
    {p \in 1..Len(s) :
        /\ p + Len(tok) - 1 <= Len(s)
        /\ \A j \in 1..Len(tok) : s[p + j - 1] = tok[j]}

Occurs(tok, s) == Occurrences(tok, s) # {}

\* some mapped token occurs in s
AnyTokenIn(repl, s) == \E k \in 1..Len(repl) : Occurs(repl[k].placeholder, s)

\* no replacement value contains the text of a mapped token
NoTokenText(repl) == \A k \in 1..Len(repl) : ~AnyTokenIn(repl, repl[k].value)

\* s with every occurrence of tok replaced by val, position by position
\* (a token {id} cannot overlap another occurrence of itself)
SubstAll(s, tok, val) ==
    LET occ == Occurrences(tok, s)
        covered(p) == \E q \in occ : q < p /\ p < q + Len(tok)
    IN  Join([p \in 1..Len(s) |->
                 IF p \in occ THEN val
                 ELSE IF covered(p) THEN <<>>
                 ELSE <<s[p]>>])

\* s after SubstAll for each item of repl in order, from item k on
RECURSIVE SubstEach(_, _, _)
SubstEach(s, repl, k) ==
    IF k > Len(repl) THEN s
    ELSE SubstEach(SubstAll(s, repl[k].placeholder, repl[k].value), repl, k + 1)

\* the number of characters of rs before run i
Offset(rs, i) == Len(Join(SubSeq(rs, 1, i - 1)))

\* the occurrence at 0-based [s, e) lies within one run of rs
WithinOneRun(rs, s, e) ==
    \E i \in 1..Len(rs) : Offset(rs, i) <= s /\ e <= Offset(rs, i) + Len(rs[i])

Clamp(x, n) == Max2(0, Min2(x, n))

\* the characters of run i of rs outside the span [s, e), with val put where
\* the span begins when the span begins in this run
OutsideSpan(rs, i, s, e, val) ==
    LET start == Offset(rs, i)
        n     == Len(rs[i])
    IN  Slice(rs[i], 0, Clamp(s - start, n))
            \o (IF start <= s /\ s < start + n THEN val ELSE <<>>)
            \o Slice(rs[i], Clamp(e - start, n), n)

----------------------------------------------------------------------------
(* Properties of replace_text_in_runs. *)

\* C1: after one call with a mapping whose values contain no token text, the
\* concatenated run texts contain no occurrence of any mapped token.
C1_NoResidualToken ==
    (pc = "returned" /\ NoTokenText(replacements))
        => ~AnyTokenIn(replacements, Join(runs))

\* C2: when the text T of the scope holds exactly one occurrence of a mapped
\* token, at [s, e) and split across two or more runs, the call leaves the text
\* T[0..s) + value + T[e..) and every run keeps only its characters outside [s, e).
C2_SingleSplitOccurrence ==
    pc = "returned" =>
        \A k \in 1..Len(replacements) :
            LET T   == Join(runs0)
                tok == replacements[k].placeholder
                val == replacements[k].value
                occ == Occurrences(tok, T)
            IN  (/\ Cardinality(occ) = 1
                 /\ \A j \in 1..Len(replacements) :
                        j # k => ~Occurs(replacements[j].placeholder, T)
                 /\ ~WithinOneRun(runs0, Min(occ) - 1, Min(occ) - 1 + Len(tok)))
                => LET s == Min(occ) - 1
                       e == s + Len(tok)
                   IN  /\ Join(runs) = Slice(T, 0, s) \o val \o Slice(T, e, Len(T))
                       /\ Len(runs) = Len(runs0)
                       /\ \A i \in 1..Len(runs0) :
                              runs[i] = OutsideSpan(runs0, i, s, e, val)

\* C3: substitution is not recursive: with {a} -> "{b}" and {b} -> "X", in
\* either order, a scope whose text is "{a}" (in one run or split) ends as "{b}".
C3_NonRecursive ==
    (/\ pc = "returned"
     /\ Join(runs0) = TokA
     /\ replacements \in {<<Item(TokA, TokB), Item(TokB, <<"X">>)>>,
                          <<Item(TokB, <<"X">>), Item(TokA, TokB)>>})
        => Join(runs) = TokB

\* C4: with a mapping whose values contain no token text, a second call with
\* the same mapping leaves every run as the first call left it.
C4_Idempotent ==
    (pc = "again" /\ NoTokenText(replacements)) => runs = runs1

\* C5: the run-local pass replaces, item by item in mapping order, every
\* occurrence of the token within a run by the value, and leaves every run
\* that holds no mapped token as it was, without assigning it.
C5_RunLocalPass ==
    (pc = "cross" /\ idx = 1) =>
        /\ Len(runs) = Len(runs0)
        /\ \A i \in 1..Len(runs0) :
              /\ runs[i] = SubstEach(runs0[i], replacements, 1)
              /\ ~AnyTokenIn(replacements, runs0[i])
                    => (runs[i] = runs0[i] /\ i \notin written)

\* C5's case: the single run "{a}{a}" with {a} -> "X" has become "XX".
C5_Witness ==
    /\ pc = "cross"
    /\ idx = 1
    /\ replacements = <<Item(TokA, <<"X">>)>>
    /\ runs0 = <<TokA \o TokA>>
    /\ runs = <<<<"X", "X">>>>

\* C6: a token mapped to the empty string is removed wherever it occurs, in
\* one run or split across runs, and all the surrounding text is kept.
C6_EmptyReplacement ==
    (pc = "returned" /\ replacements = <<Item(TokA, <<>>)>>)
        => /\ Join(runs) = SubstAll(Join(runs0), TokA, <<>>)
           /\ ~Occurs(TokA, Join(runs))

\* C7: when no mapped token occurs in the text of the scope, the call leaves
\* every run text as it was and assigns no run.
C7_NoOpOnAbsentToken ==
    ~AnyTokenIn(replacements, Join(runs0))
        => (pc \in {"cross", "returned"} => (runs = runs0 /\ written = {}))

\* C7's case: a returned call on several runs holding the fragment "{a" of a
\* token but no whole token.
C7_Witness ==
    /\ pc = "returned"
    /\ Len(runs0) >= 2
    /\ ~AnyTokenIn(replacements, Join(runs0))
    /\ Occurs(<<"{", "a">>, Join(runs0))

\* C8: the call never adds, removes or reorders runs: the number of runs is
\* the one before the call, a run it did not assign keeps its text at its
\* index, and a run emptied by splicing stays in place with empty text.
C8_RunStructure ==
    /\ Len(runs) = Len(runs0)
    /\ DOMAIN runs = 1..Len(runs0)
    /\ pc \in {"local", "cross", "returned"}
          => \A i \in (1..Len(runs0)) \ written : runs[i] = runs0[i]

\* C8's case: a returned call in which splicing emptied a middle run that
\* held text, with a non-empty run after it.
C8_Witness ==
    /\ pc = "returned"
    /\ \E i \in written :
          /\ runs0[i] # <<>>
          /\ ~AnyTokenIn(replacements, runs0[i])
          /\ runs[i] = <<>>
          /\ \E j \in (i + 1)..Len(runs) : runs[j] # <<>>

----------------------------------------------------------------------------
(* Properties of replace_all_text. *)

\* the paths <<table, row, cell, paragraph>> of the paragraphs in tables
CellPaths(tables) ==
    UNION {UNION {UNION {{<<t, r, c, q>> : q \in 1..Len(tables[t][r][c])} :
                             c \in 1..Len(tables[t][r])} :
                      r \in 1..Len(tables[t])} :
               t \in 1..Len(tables)}

ParagraphAt(tables, path) == tables[path[1]][path[2]][path[3]][path[4]]

\* paragraph p0 has been substituted into p: the same number of runs, and the
\* text of p0 with every occurrence of each mapped token replaced by its value
Substituted(p, p0) ==
    /\ Len(p) = Len(p0)
    /\ Join(p) = SubstEach(Join(p0), replacements, 1)
    /\ ~AnyTokenIn(replacements, Join(p))

\* C9: when replace_all_text is done, every body paragraph, every paragraph of
\* every cell of every body table and, for every section, every header
\* paragraph, every footer paragraph and every paragraph of every cell of every
\* footer table has been substituted; a paragraph without runs is still without runs.
C9_ScopeCoverage ==
    stage = "done" =>
        /\ \A i \in 1..Len(doc0.paragraphs) :
              Substituted(doc.paragraphs[i], doc0.paragraphs[i])
        /\ \A path \in CellPaths(doc0.tables) :
              Substituted(ParagraphAt(doc.tables, path), ParagraphAt(doc0.tables, path))
        /\ \A s \in 1..Len(doc0.sections) :
              LET sn == doc.sections[s]
                  s0 == doc0.sections[s]
              IN  /\ \A i \in 1..Len(s0.header.paragraphs) :
                        Substituted(sn.header.paragraphs[i], s0.header.paragraphs[i])
                  /\ \A i \in 1..Len(s0.footer.paragraphs) :
                        Substituted(sn.footer.paragraphs[i], s0.footer.paragraphs[i])
                  /\ \A path \in CellPaths(s0.footer.tables) :
                        Substituted(ParagraphAt(sn.footer.tables, path),
                                    ParagraphAt(s0.footer.tables, path))

\* C9's case: a finished call on a document of two sections and 2 x 2 tables
\* that held the token in the body, in the table cells, in the footers and in
\* the footer-table cells, split across runs in one of them, and whose header
\* paragraphs have no runs.
C9_Witness ==
    /\ stage = "done"
    /\ Len(doc0.sections) = 2
    /\ Occurs(TokA, Join(doc0.paragraphs[1]))
    /\ Occurs(TokA, Join(doc0.tables[1][2][2][1]))
    /\ Len(doc0.tables[1][2][2][1]) = 2
    /\ doc0.sections[2].header.paragraphs[1] = <<>>
    /\ Occurs(TokA, Join(doc0.sections[2].footer.paragraphs[1]))
    /\ Occurs(TokA, Join(doc0.sections[2].footer.tables[1][2][2][1]))
    /\ doc.sections[2].footer.tables[1][2][2][1] = <<<<"X">>>>

\* C10: the tables of a section's header are never visited: at every point of
\* the call every header-table cell holds the run texts it held before, while
\* header paragraphs and footer-table cells have been substituted at the end.
C10_HeaderTablesUntouched ==
    /\ \A s \in 1..Len(doc0.sections) :
          doc.sections[s].header.tables = doc0.sections[s].header.tables
    /\ stage = "done" =>
          \A s \in 1..Len(doc0.sections) :
              /\ \A i \in 1..Len(doc0.sections[s].header.paragraphs) :
                    Substituted(doc.sections[s].header.paragraphs[i],
                                doc0.sections[s].header.paragraphs[i])
              /\ \A path \in CellPaths(doc0.sections[s].footer.tables) :
                    Substituted(ParagraphAt(doc.sections[s].footer.tables, path),
                                ParagraphAt(doc0.sections[s].footer.tables, path))

\* C10's case: a finished call on a document that held the token in a
\* header-table cell, in a header paragraph and in a footer-table cell: the
\* header-table cell still holds it, the other two do not.
C10_Witness ==
    /\ stage = "done"
    /\ Occurs(TokA, Join(doc.sections[1].header.tables[1][1][1][1]))
    /\ Occurs(TokA, Join(doc0.sections[1].header.paragraphs[1]))
    /\ ~Occurs(TokA, Join(doc.sections[1].header.paragraphs[1]))
    /\ Occurs(TokA, Join(doc0.sections[1].footer.tables[1][1][1][1]))
    /\ ~Occurs(TokA, Join(doc.sections[1].footer.tables[1][1][1][1]))

\* the paragraphs of the scopes replace_all_text visits, in document order
VisitedScopes(d) ==
    d.paragraphs \o Join(Join(Join(d.tables)))
        \o Join([s \in 1..Len(d.sections) |->
                    d.sections[s].header.paragraphs
                        \o d.sections[s].footer.paragraphs
                        \o Join(Join(Join(d.sections[s].footer.tables)))])

\* the paragraphs of the header tables
HeaderTableScopes(d) ==
    Join([s \in 1..Len(d.sections) |-> Join(Join(Join(d.sections[s].header.tables)))])

\* C19: at every point of replace_all_text a scope holds either the runs it
\* held before or the result of the engine on those runs alone, and at the end
\* every visited scope holds that result, so scopes with the same runs end
\* with the same runs whatever the rest of the document holds; a scope whose
\* own text holds no whole token keeps its runs, so a token divided between
\* two paragraphs or cells is never joined or replaced.
C19_ScopeIndependence ==
    LET v  == VisitedScopes(doc)
        v0 == VisitedScopes(doc0)
    IN  /\ Len(v) = Len(v0)
        /\ HeaderTableScopes(doc) = HeaderTableScopes(doc0)
        /\ \A k \in 1..Len(v0) :
              /\ v[k] # v0[k] =>
                    /\ v[k] = ReplaceParagraph(v0[k], replacements)
                    /\ AnyTokenIn(replacements, Join(v0[k]))
              /\ stage = "done" => v[k] = ReplaceParagraph(v0[k], replacements)

\* a finished call on the document whose token is divided between two body
\* paragraphs and between two paragraphs of a cell, next to a whole token:
\* the parts are as they were and the whole token is replaced
C19_Witness ==
    /\ stage = "done"
    /\ doc0 = DividedDoc(<<TokA>>)
    /\ doc.paragraphs = <<<<<<"{", "a">>>>, <<<<"}">>>>, <<<<"X">>>>>>
    /\ doc.tables[1][2][1] = <<<<<<"{", "a">>>>, <<<<"}">>>>>>
    /\ doc.tables[1][2][2] = <<<<<<"X">>>>>>

----------------------------------------------------------------------------
(* process_document_template (replace.py, lines 106-179).                    *)

\* replace_all_text as one call (lines 69-104)
ReplaceSection(section, repl) ==
    [header |-> ReplaceHeader(section.header, repl),
     footer |-> ReplaceFooterTables(ReplaceFooter(section.footer, repl), repl)]

ReplaceAllText(d, repl) ==
    [paragraphs |-> ReplaceParagraphs(d.paragraphs, repl),
     tables     |-> ReplaceTables(d.tables, repl),
     sections   |-> [s \in 1..Len(d.sections) |-> ReplaceSection(d.sections[s], repl)]]

Path(dir, stem, ext) == [dir |-> dir, stem |-> stem, ext |-> ext]

\* the default of both path parameters (lines 106-107)
PyNone == Path("<None>", <<>>, "")

RecordFile == Path("project", <<"a">>, ".json")

TemplateFile == Path("templates", <<"t">>, ".docx")

\* a path as an f-string renders it (lines 125, 132)
Format(path) == <<path.dir, "/">> \o path.stem \o <<path.ext>>

\* output_dir (line 108)
OutputDir == "outputs"

\* datetime.now().strftime(...) of line 153
Timestamp == "20250101_000000"

\* JSON values: strings and integers
JStr(chars) == [type |-> "str", s |-> chars, n |-> 0]

JInt(n) == [type |-> "int", s |-> <<>>, n |-> n]

DigitChars == <<"0", "1", "2", "3", "4", "5", "6", "7", "8", "9">>

RECURSIVE Digits(_)
Digits(n) == IF n < 10 THEN <<DigitChars[n + 1]>>
             ELSE Digits(n \div 10) \o <<DigitChars[(n % 10) + 1]>>

\* str(v) of line 144
Str(v) == IF v.type = "str" THEN v.s ELSE Digits(v.n)

\* what the record file holds: text that is no JSON, a JSON array, a JSON object
RecordContents ==
    {[kind |-> "malformed", items |-> <<>>],
     [kind |-> "array", items |-> <<>>],
     [kind |-> "object", items |-> <<>>],
     [kind |-> "object", items |-> <<[k |-> <<"a">>, v |-> JStr(<<"X">>)]>>],
     [kind |-> "object", items |-> <<[k |-> <<"a">>, v |-> JInt(12)]>>]}

\* line 144: {f'{{{k}}}': str(v) for k, v in data.items()}
MakeReplacements(items) ==
    [i \in 1..Len(items) |-> Item(<<"{">> \o items[i].k \o <<"}">>, Str(items[i].v))]

\* the templates: the token in one run of every scope, and split across two runs
Templates ==
    {MakeDoc([k \in Kinds |-> p], 1) : p \in {<<TokA>>, <<<<"{", "a">>, <<"}">>>>}}

NoResult == [success |-> FALSE, message |-> <<>>, output_file |-> PyNone]

\* a plausible slip: the message does not say which path is missing
NotFoundNoPath(label, path) ==
    [success |-> FALSE, message |-> <<label>>, output_file |-> PyNone]

\* lines 123-127 and 130-134
NotFound(label, path) ==
    [success |-> FALSE, message |-> <<label>> \o Format(path), output_file |-> PyNone]

\* lines 168-179: the two except clauses
Except(exc) ==
    [success     |-> FALSE,
     message     |-> IF exc = "JSONDecodeError"
                     THEN <<"Error reading JSON file: ", exc>>
                     ELSE <<"Error processing document: ", exc>>,
     output_file |-> PyNone]

\* a plausible slip: the document is saved before the engine has run
PdtAfterSaveFirst(step) ==
    CASE step = "check_record"   -> "check_template"
      [] step = "check_template" -> "makedirs"
      [] step = "makedirs"       -> "load"
      [] step = "load"           -> "build"
      [] step = "build"          -> "document"
      [] step = "document"       -> "save"
      [] step = "save"           -> "engine"
      [] step = "engine"         -> "return"

\* a plausible slip: the result is returned without the document being saved
PdtAfterNoSave(step) ==
    CASE step = "check_record"   -> "check_template"
      [] step = "check_template" -> "makedirs"
      [] step = "makedirs"       -> "load"
      [] step = "load"           -> "build"
      [] step = "build"          -> "document"
      [] step = "document"       -> "engine"
      [] step = "engine"         -> "return"
      [] step = "save"           -> "return"

\* the statement that follows each statement of the try block (lines 122-162)
PdtAfter(step) ==
    CASE step = "check_record"   -> "check_template"
      [] step = "check_template" -> "makedirs"
      [] step = "makedirs"       -> "load"
      [] step = "load"           -> "build"
      [] step = "build"          -> "document"
      [] step = "document"       -> "engine"
      [] step = "engine"         -> "save"
      [] step = "save"           -> "return"

\* a statement is reached: it is recorded in the trace of the call
PdtAt(step) ==
    /\ pdt.pc = step
    /\ UNCHANGED <<replacements, runvars, docvars, merge, logger, gsr>>

PdtGo(p, step) == [p EXCEPT !.pc = PdtAfter(step), !.events = Append(@, step)]

\* a return statement of the function
PdtReturn(p, step, result) ==
    [p EXCEPT !.pc = "returned", !.events = Append(@, step), !.result = result]

\* a plausible slip: only the except clause of line 168 is present
PdtRaiseUncaught(p, step, exc) ==
    IF exc = "JSONDecodeError"
    THEN [p EXCEPT !.pc = "returned", !.events = Append(@, step), !.exc = exc,
                   !.result = Except(exc)]
    ELSE [p EXCEPT !.pc = "raised", !.events = Append(@, step), !.exc = exc]

\* an exception raised by a statement of the try block and caught at line 168 or 174
PdtRaise(p, step, exc) ==
    [p EXCEPT !.pc = "returned", !.events = Append(@, step), !.exc = exc,
              !.result = Except(exc)]

InitPdt ==
    /\ \E rp \in {PyNone, RecordFile}, tp \in {PyNone, TemplateFile},
          fs \in SUBSET {RecordFile, TemplateFile}, c \in RecordContents, t \in Templates :
          pdt = [pc            |-> "check_record",
                 record_path   |-> rp,
                 template_path |-> tp,
                 files         |-> fs,
                 content       |-> c,
                 template      |-> t,
                 data          |-> <<>>,
                 repl          |-> <<>>,
                 document      |-> NoDoc,
                 events        |-> <<>>,
                 exc           |-> "none",
                 result        |-> NoResult,
                 dirs          |-> {},
                 saved         |-> {}]
    /\ replacements = <<>>
    /\ runs = <<>>
    /\ full_text = <<>>
    /\ pc = "none"
    /\ idx = 0
    /\ runs0 = <<>>
    /\ runs1 = <<>>
    /\ written = {}
    /\ doc = NoDoc
    /\ doc0 = NoDoc
    /\ stage = "none"
    /\ sec = 0
    /\ merge = Idle
    /\ logger = Idle
    /\ gsr = Idle

\* lines 122-127: os.path.exists(None) raises TypeError
PdtCheckRecord ==
    /\ PdtAt("check_record")
    /\ pdt' = IF pdt.record_path = PyNone
              THEN PdtRaise(pdt, "check_record", "TypeError")
              ELSE IF pdt.record_path \notin pdt.files
              THEN PdtReturn(pdt, "check_record",
                             NotFound("Candidate data file not found: ", pdt.record_path))
              ELSE PdtGo(pdt, "check_record")

\* lines 129-134
PdtCheckTemplate ==
    /\ PdtAt("check_template")
    /\ pdt' = IF pdt.template_path = PyNone
              THEN PdtRaise(pdt, "check_template", "TypeError")
              ELSE IF pdt.template_path \notin pdt.files
              THEN PdtReturn(pdt, "check_template",
                             NotFound("Template file not found: ", pdt.template_path))
              ELSE PdtGo(pdt, "check_template")

\* line 137: the directory is created, or os.makedirs raises OSError
PdtMakedirs ==
    /\ PdtAt("makedirs")
    /\ \/ pdt' = [PdtGo(pdt, "makedirs") EXCEPT !.dirs = @ \cup {OutputDir}]
       \/ pdt' = PdtRaise(pdt, "makedirs", "OSError")

\* lines 140-141: open may raise OSError; json.load raises JSONDecodeError on
\* text that is no JSON
PdtLoad ==
    /\ PdtAt("load")
    /\ \/ pdt' = IF pdt.content.kind = "malformed"
                 THEN PdtRaise(pdt, "load", "JSONDecodeError")
                 ELSE [PdtGo(pdt, "load") EXCEPT !.data = pdt.content]
       \/ pdt' = PdtRaise(pdt, "load", "OSError")

\* line 144: data.items() raises AttributeError when data is no dict
PdtBuild ==
    /\ PdtAt("build")
    /\ pdt' = IF pdt.data.kind = "object"
              THEN [PdtGo(pdt, "build") EXCEPT !.repl = MakeReplacements(pdt.data.items)]
              ELSE PdtRaise(pdt, "build", "AttributeError")

\* line 147: Document(template_path) loads the template, or raises when the
\* file is no Word package
PdtDocument ==
    /\ PdtAt("document")
    /\ \/ pdt' = [PdtGo(pdt, "document") EXCEPT !.document = pdt.template]
       \/ pdt' = PdtRaise(pdt, "document", "PackageNotFoundError")

\* line 150: the engine runs on the loaded document, or raises part-way
PdtEngine ==
    /\ PdtAt("engine")
    /\ \/ pdt' = [PdtGo(pdt, "engine") EXCEPT
                      !.document = ReplaceAllText(pdt.document, pdt.repl)]
       \/ pdt' = PdtRaise(pdt, "engine", "Exception")

\* lines 153-156
OutputPath(p) ==
    [dir |-> OutputDir, stem |-> p.record_path.stem \o <<"_report_", Timestamp>>,
     ext |-> ".docx"]

\* lines 152-160: the file is written, or doc.save raises OSError
PdtSave ==
    /\ PdtAt("save")
    /\ \/ pdt' = [PdtGo(pdt, "save") EXCEPT
                      !.saved = @ \cup {[path |-> OutputPath(pdt), document |-> pdt.document]}]
       \/ pdt' = PdtRaise(pdt, "save", "OSError")

\* lines 162-166
PdtSucceed ==
    /\ PdtAt("return")
    /\ pdt' = PdtReturn(pdt, "return",
                        [success     |-> TRUE,
                         message     |-> <<"Document processed successfully. Replaced ">>
                                           \o Digits(Len(pdt.repl)) \o <<" placeholders.">>,
                         output_file |-> OutputPath(pdt)])

NextPdt ==
    \/ PdtCheckRecord
    \/ PdtCheckTemplate
    \/ PdtMakedirs
    \/ PdtLoad
    \/ PdtBuild
    \/ PdtDocument
    \/ PdtEngine
    \/ PdtSave
    \/ PdtSucceed

SpecPdt == InitPdt /\ [][NextPdt]_vars

----------------------------------------------------------------------------
(* Properties of process_document_template.                                  *)

RecordMissing == pdt.record_path # PyNone /\ pdt.record_path \notin pdt.files

TemplateMissing == pdt.template_path # PyNone /\ pdt.template_path \notin pdt.files

\* the shape of every failure result
IsFailure(result) ==
    /\ result.success = FALSE
    /\ Len(result.message) > 0
    /\ result.output_file = PyNone

\* the 1-based position of the first record of step in the trace, 0 if none
EventPos(step) ==
    IF \E i \in 1..Len(pdt.events) : pdt.events[i] = step
    THEN Min({i \in 1..Len(pdt.events) : pdt.events[i] = step})
    ELSE 0

\* C11: process_document_template never raises to its caller; when the record
\* file or the template file is missing, the record is malformed JSON, or any
\* statement of the load, the substitution or the save raised an exception,
\* the call ends with the result success = False, a message and
\* output_file = None.
C11_NeverRaises ==
    /\ pdt.pc # "raised"
    /\ (pdt.pc = "returned"
        /\ (\/ RecordMissing
            \/ TemplateMissing
            \/ pdt.content.kind = "malformed"
            \/ pdt.exc # "none"))
       => IsFailure(pdt.result)

\* doc.save raised after the engine had run, and the call returned a failure
C11_Witness ==
    /\ pdt.pc = "returned"
    /\ pdt.exc = "OSError"
    /\ pdt.events[Len(pdt.events)] = "save"
    /\ IsFailure(pdt.result)

\* C12: a missing record path is reported in the failure message; a missing
\* template path is reported when the record exists; when both are missing
\* the record path is the one reported.
C12_NotFound ==
    pdt.pc = "returned" =>
        /\ RecordMissing =>
              /\ IsFailure(pdt.result)
              /\ Occurs(Format(pdt.record_path), pdt.result.message)
        /\ (pdt.record_path \in pdt.files /\ TemplateMissing) =>
              /\ IsFailure(pdt.result)
              /\ Occurs(Format(pdt.template_path), pdt.result.message)
        /\ (RecordMissing /\ TemplateMissing) =>
              ~Occurs(Format(pdt.template_path), pdt.result.message)

\* both files are missing and the record path is reported
C12_Witness ==
    /\ pdt.pc = "returned"
    /\ RecordMissing
    /\ TemplateMissing
    /\ pdt.result.message = <<"Candidate data file not found: ">> \o Format(RecordFile)

\* C20: when replace_all_text is invoked, the record file and the template
\* file exist, the record is parsed JSON, and both existence checks and the
\* parse precede the invocation; the document is saved only after the engine
\* has run.
C20_ValidateBeforeEngine ==
    /\ EventPos("engine") > 0 =>
          /\ pdt.record_path \in pdt.files
          /\ pdt.template_path \in pdt.files
          /\ pdt.content.kind # "malformed"
          /\ 0 < EventPos("check_record")
          /\ EventPos("check_record") < EventPos("check_template")
          /\ EventPos("check_template") < EventPos("load")
          /\ EventPos("load") < EventPos("engine")
    /\ EventPos("save") > 0 =>
          /\ 0 < EventPos("engine")
          /\ EventPos("engine") < EventPos("save")
    /\ \A f \in pdt.saved : f.document = ReplaceAllText(pdt.template, pdt.repl)

\* a successful call: the substituted document has been saved
C20_Witness ==
    /\ pdt.pc = "returned"
    /\ pdt.result.success
    /\ pdt.events = <<"check_record", "check_template", "makedirs", "load", "build",
                      "document", "engine", "save", "return">>
    /\ pdt.saved # {}
    /\ \E f \in pdt.saved : f.document # pdt.template

\* C28: in every result of process_document_template output_file is None
\* exactly when success is False; a success is returned only after the
\* substituted document was saved, and output_file is then the path it was
\* saved to, a file of output_dir.
C28_ResultShape ==
    pdt.pc = "returned" =>
        /\ (pdt.result.output_file = PyNone) <=> (pdt.result.success = FALSE)
        /\ pdt.result.success =>
              /\ 0 < EventPos("engine")
              /\ EventPos("engine") < EventPos("save")
              /\ pdt.saved = {[path     |-> pdt.result.output_file,
                               document |-> ReplaceAllText(pdt.template, pdt.repl)]}
              /\ pdt.result.output_file.dir = OutputDir
              /\ OutputDir \in pdt.dirs

\* a successful call on the record {"a": 12}
C28_Witness ==
    /\ pdt.pc = "returned"
    /\ pdt.result.success
    /\ pdt.repl = <<Item(TokA, <<"1", "2">>)>>
    /\ pdt.result.output_file = Path(OutputDir, RecordFile.stem \o <<"_report_", Timestamp>>, ".docx")
    /\ \E f \in pdt.saved : f.path = pdt.result.output_file

\* the statement at which the call ended
LastEvent == pdt.events[Len(pdt.events)]

\* C29 as stated: whenever process_document_template returns success = False
\* the output directory has not been created and no output file has been
\* written.
C29_FailureLeavesNothing ==
    (pdt.pc = "returned" /\ ~pdt.result.success) =>
        (pdt.dirs = {} /\ pdt.saved = {})

\* C29, amended: a failure for a missing record or a missing template leaves
\* no directory and no file; a failure at any statement before the save
\* leaves no output file, but from the load of the record on the output
\* directory has already been created.
C29_FailureLeavesNoFile ==
    (pdt.pc = "returned" /\ ~pdt.result.success) =>
        /\ (RecordMissing \/ TemplateMissing) => (pdt.dirs = {} /\ pdt.saved = {})
        /\ LastEvent # "save" => pdt.saved = {}
        /\ LastEvent \in {"check_record", "check_template", "makedirs"} => pdt.dirs = {}
        /\ LastEvent \in {"load", "build", "document", "engine"} => pdt.dirs = {OutputDir}

\* the record is malformed JSON: the call failed, the directory exists, no file
C29_Witness ==
    /\ pdt.pc = "returned"
    /\ pdt.content.kind = "malformed"
    /\ pdt.exc = "JSONDecodeError"
    /\ IsFailure(pdt.result)
    /\ pdt.dirs = {OutputDir}
    /\ pdt.saved = {}

----------------------------------------------------------------------------
(* merge_shortlist_documents (utils/merge_doc.py, lines 17-117).             *)

OverviewDoc == Path("out", <<"overview">>, ".docx")

EndPageDoc == Path("templates", <<"end_page">>, ".docx")

CandidateDoc(i) == Path("out", <<"candidate_">> \o Digits(i), ".docx")

MergedDoc == Path("out", <<"merged">>, ".docx")

\* candidate_paths: up to MaxCandidates distinct documents, in any order
CandidatePathLists ==
    UNION {{[i \in 1..n |-> CandidateDoc(f[i])] :
                f \in {g \in [1..n -> 1..MaxCandidates] :
                          \A i, j \in 1..n : i # j => g[i] # g[j]}} :
           n \in 0..MaxCandidates}

\* lines 58-62, 66-70 and 76-80
MergeNotFound(label, path) ==
    [success |-> FALSE, message |-> label \o Format(path), output_file |-> PyNone]

\* lines 112-117
MergeExcept(exc) ==
    [success     |-> FALSE,
     message     |-> <<"Error merging documents: ", exc>>,
     output_file |-> PyNone]

\* a plausible slip: the overview is loaded before the candidates are checked
MergeAfterLoadFirst(step) ==
    CASE step = "check_overview"    -> "check_end_page"
      [] step = "check_end_page"    -> "load_overview"
      [] step = "load_overview"     -> "check_candidates"
      [] step = "check_candidates"  -> "append_candidates"
      [] step = "append_candidates" -> "append_end_page"
      [] step = "append_end_page"   -> "save"
      [] step = "save"              -> "return"

\* a plausible slip: the end page is appended before the candidate documents
MergeAfterEndPageFirst(step) ==
    CASE step = "check_overview"    -> "check_end_page"
      [] step = "check_end_page"    -> "check_candidates"
      [] step = "check_candidates"  -> "load_overview"
      [] step = "load_overview"     -> "append_end_page"
      [] step = "append_end_page"   -> "append_candidates"
      [] step = "append_candidates" -> "save"
      [] step = "save"              -> "return"

\* the statement that follows each statement (or exhausted loop) of lines 56-98
MergeAfter(step) ==
    CASE step = "check_overview"    -> "check_end_page"
      [] step = "check_end_page"    -> "check_candidates"
      [] step = "check_candidates"  -> "load_overview"
      [] step = "load_overview"     -> "append_candidates"
      [] step = "append_candidates" -> "append_end_page"
      [] step = "append_end_page"   -> "save"
      [] step = "save"              -> "return"

MergeAt(step) ==
    /\ merge.pc = step
    /\ UNCHANGED <<replacements, runvars, docvars, pdt, logger, gsr>>

\* the statement completes; a loop starts at its first element
MergeGo(m, step) == [m EXCEPT !.pc = MergeAfter(step), !.i = 1]

MergeReturn(m, result) == [m EXCEPT !.pc = "returned", !.result = result]

\* an exception caught at line 112
MergeRaise(m, exc) == [m EXCEPT !.pc = "returned", !.exc = exc, !.result = MergeExcept(exc)]

\* Document(path): a missing file and a file that is no Word package raise
MergeLoad(m, path) ==
    {MergeRaise([m EXCEPT !.loads = Append(@, path)], "PackageNotFoundError")}
    \cup IF path \in m.files
         THEN {[m EXCEPT !.loads = Append(@, path), !.composed = Append(@, path)]}
         ELSE {}

InitMerge ==
    /\ \E cp \in CandidatePathLists,
          fs \in SUBSET ({OverviewDoc, EndPageDoc} \cup {CandidateDoc(i) : i \in 1..MaxCandidates}) :
          merge = [pc              |-> "check_overview",
                   overview_path   |-> OverviewDoc,
                   candidate_paths |-> cp,
                   output_path     |-> MergedDoc,
                   end_page_path   |-> EndPageDoc,
                   files           |-> fs,
                   i               |-> 1,
                   loads           |-> <<>>,
                   composed        |-> <<>>,
                   dirs            |-> {},
                   saved           |-> {},
                   exc             |-> "none",
                   result          |-> NoResult]
    /\ replacements = <<>>
    /\ runs = <<>>
    /\ full_text = <<>>
    /\ pc = "none"
    /\ idx = 0
    /\ runs0 = <<>>
    /\ runs1 = <<>>
    /\ written = {}
    /\ doc = NoDoc
    /\ doc0 = NoDoc
    /\ stage = "none"
    /\ sec = 0
    /\ pdt = Idle
    /\ logger = Idle
    /\ gsr = Idle

\* lines 56-62
MergeCheckOverview ==
    /\ MergeAt("check_overview")
    /\ merge' = IF merge.overview_path \in merge.files
                THEN MergeGo(merge, "check_overview")
                ELSE MergeReturn(merge, MergeNotFound(<<"Overview document not found: ">>,
                                                      merge.overview_path))

\* lines 64-70
MergeCheckEndPage ==
    /\ MergeAt("check_end_page")
    /\ merge' = IF merge.end_page_path \in merge.files
                THEN MergeGo(merge, "check_end_page")
                ELSE MergeReturn(merge, MergeNotFound(<<"End page document not found: ">>,
                                                      merge.end_page_path))

\* lines 73-80: one iteration of the loop, or its end
MergeCheckCandidate ==
    /\ MergeAt("check_candidates")
    /\ merge' = IF merge.i > Len(merge.candidate_paths)
                THEN MergeGo(merge, "check_candidates")
                ELSE IF merge.candidate_paths[merge.i] \in merge.files
                THEN [merge EXCEPT !.i = @ + 1]
                ELSE MergeReturn(merge,
                         MergeNotFound(<<"Candidate document ">> \o Digits(merge.i)
                                           \o <<" not found: ">>,
                                       merge.candidate_paths[merge.i]))

\* lines 83-84
MergeLoadOverview ==
    /\ MergeAt("load_overview")
    /\ \E m \in MergeLoad(merge, merge.overview_path) :
          merge' = IF m.pc = "returned" THEN m ELSE MergeGo(m, "load_overview")

\* lines 87-89: one iteration of the loop, or its end
MergeAppendCandidate ==
    /\ MergeAt("append_candidates")
    /\ IF merge.i > Len(merge.candidate_paths)
       THEN merge' = MergeGo(merge, "append_candidates")
       ELSE \E m \in MergeLoad(merge, merge.candidate_paths[merge.i]) :
               merge' = IF m.pc = "returned" THEN m ELSE [m EXCEPT !.i = @ + 1]

\* lines 92-93
MergeAppendEndPage ==
    /\ MergeAt("append_end_page")
    /\ \E m \in MergeLoad(merge, merge.end_page_path) :
          merge' = IF m.pc = "returned" THEN m ELSE MergeGo(m, "append_end_page")

\* lines 96-98: the parent directory is made and the file written, or mkdir
\* raises, or save raises after the directory was made
MergeSave ==
    /\ MergeAt("save")
    /\ \/ merge' = [MergeGo(merge, "save") EXCEPT
                        !.dirs = @ \cup {merge.output_path.dir},
                        !.saved = @ \cup {[path     |-> merge.output_path,
                                           composed |-> merge.composed]}]
       \/ merge' = MergeRaise(merge, "OSError")
       \/ merge' = MergeRaise([merge EXCEPT !.dirs = @ \cup {merge.output_path.dir}],
                              "OSError")

\* lines 100-110
MergeSucceed ==
    /\ MergeAt("return")
    /\ merge' = MergeReturn(merge,
                    [success         |-> TRUE,
                     message         |-> <<"Successfully merged ">>
                                         \o Digits(1 + Len(merge.candidate_paths) + 1)
                                         \o <<" sections into report">>,
                     output_file     |-> merge.output_path,
                     sections_merged |-> 1 + Len(merge.candidate_paths) + 1,
                     overview        |-> merge.overview_path.stem,
                     candidates      |-> Len(merge.candidate_paths),
                     end_page        |-> merge.end_page_path.stem])

NextMerge ==
    \/ MergeCheckOverview
    \/ MergeCheckEndPage
    \/ MergeCheckCandidate
    \/ MergeLoadOverview
    \/ MergeAppendCandidate
    \/ MergeAppendEndPage
    \/ MergeSave
    \/ MergeSucceed

SpecMerge == InitMerge /\ [][NextMerge]_vars

\* the input paths of the call
MergeInputs ==
    {merge.overview_path, merge.end_page_path}
    \cup {merge.candidate_paths[i] : i \in 1..Len(merge.candidate_paths)}

\* C13: every input path of merge_shortlist_documents is checked before any
\* document is loaded or appended and before the output is created; when an
\* input is missing the call returns success = False with a message that
\* names a missing input, and nothing has been loaded, composed or written.
C13_ValidateBeforeMerge ==
    /\ (merge.loads # <<>> \/ merge.composed # <<>> \/ merge.dirs # {} \/ merge.saved # {})
          => MergeInputs \subseteq merge.files
    /\ (merge.pc = "returned" /\ ~(MergeInputs \subseteq merge.files)) =>
          /\ IsFailure(merge.result)
          /\ \E f \in MergeInputs \ merge.files : Occurs(Format(f), merge.result.message)
          /\ merge.loads = <<>>
          /\ merge.composed = <<>>
          /\ merge.dirs = {}
          /\ merge.saved = {}

\* the overview and the end page exist, the second candidate does not
C13_Witness ==
    /\ merge.pc = "returned"
    /\ Len(merge.candidate_paths) = 2
    /\ merge.candidate_paths[1] \in merge.files
    /\ merge.candidate_paths[2] \notin merge.files
    /\ {OverviewDoc, EndPageDoc} \subseteq merge.files
    /\ merge.result.message =
          <<"Candidate document ", "2", " not found: ">> \o Format(merge.candidate_paths[2])
    /\ merge.composed = <<>>

\* the documents of a whole report, in order
MergeOrder == <<merge.overview_path>> \o merge.candidate_paths \o <<merge.end_page_path>>

\* C22: a successful merge_shortlist_documents has loaded and composed the
\* overview, then each candidate document in the order of candidate_paths,
\* then the end page, each exactly once; whatever was saved was saved after
\* the last append and holds that composition; the result reports
\* sections_merged = len(candidate_paths) + 2.
C22_MergeOrder ==
    /\ \A s \in merge.saved :
          /\ s.path = merge.output_path
          /\ s.composed = MergeOrder
          /\ merge.loads = MergeOrder
    /\ (merge.pc = "returned" /\ merge.result.success) =>
          /\ merge.composed = MergeOrder
          /\ merge.loads = MergeOrder
          /\ merge.saved = {[path |-> merge.output_path, composed |-> MergeOrder]}
          /\ merge.result.sections_merged = Len(merge.candidate_paths) + 2
          /\ merge.result.candidates = Len(merge.candidate_paths)

\* two candidate documents, passed second one first, were merged in that order
C22_Witness ==
    /\ merge.pc = "returned"
    /\ merge.result.success
    /\ merge.candidate_paths = <<CandidateDoc(2), CandidateDoc(1)>>
    /\ merge.composed = <<OverviewDoc, CandidateDoc(2), CandidateDoc(1), EndPageDoc>>
    /\ merge.result.sections_merged = 4

----------------------------------------------------------------------------
(* DatabaseLogger (utils/logging_db.py) behind the log_mcp_tool wrapper      *)
(* (utils/mcp_logging.py, lines 76-148).                                     *)

\* self._max_errors (logging_db.py, line 43)
MaxErrors == 5

\* Python values a tool returns
PyStr(parts) == [type |-> "str", val |-> parts]

PyDict == [type |-> "dict", val |-> <<>>]

PyNoneValue == [type |-> "NoneType", val |-> <<>>]

ToolOutputs == {PyStr(<<"report written">>), PyDict, PyNoneValue}

\* exceptions a tool body raises: one derived from Exception and one derived
\* from BaseException only, which the except clause of line 109 does not catch
ToolExceptions ==
    {[name |-> "ValueError", text |-> "bad input", is_exception |-> TRUE],
     [name |-> "KeyboardInterrupt", text |-> "", is_exception |-> FALSE]}

\* no exception
NoExc == [name |-> "", text |-> "", is_exception |-> FALSE]

\* a plausible slip: the message is str(e) without the name of the type
ErrorMessageTextOnly(e) ==
    IF e.is_exception THEN <<e.text>> ELSE <<>>

\* mcp_logging.py, lines 103 and 109-110: error_message when the finally block
\* is entered with exception e in flight
ErrorMessage(e) ==
    IF e.is_exception THEN <<e.name, ": ", e.text>> ELSE <<>>

\* logging_db.py, line 84
DisabledMessage ==
    <<"API logging disabled after ">> \o Digits(MaxErrors) \o <<" consecutive errors">>

\* a plausible slip: the cut-off compares with > instead of >=
DisabledAfterOneMore(l) == l.error_count > MaxErrors

\* logging_db.py, line 83
Disabled(l) == l.error_count >= MaxErrors

\* the call of log_tool_usage at mcp_logging.py, lines 127-135, with the
\* wrapper's success and error_message, ends: its return value, whether it
\* passed the cut-off of line 83 and whether requests.post was called
LogEnd(l, ok, msg, attempted, sent) ==
    [l EXCEPT !.pc = "logged",
              !.log_calls = @ + 1,
              !.logged = [success |-> l.success, error_message |-> l.error_message],
              !.log_success = ok,
              !.log_error = msg,
              !.hist = Append(@, [ok |-> ok, msg |-> msg, attempted |-> attempted,
                                  sent |-> sent])]

\* mcp_logging.py, line 138
WarningPrefix == "\n\nWarning: Failed to log tool usage: "

\* a plausible slip: the warning is appended whatever the type of the output
WrapperOutputAlwaysStr(output, success, log_success, log_error) ==
    IF ~log_success /\ success
    THEN PyStr(output.val \o <<WarningPrefix>> \o log_error)
    ELSE output

\* mcp_logging.py, lines 137-146: the value of output after the finally block
WrapperOutput(output, success, log_success, log_error) ==
    IF ~log_success /\ success /\ output.type = "str"
    THEN PyStr(output.val \o <<WarningPrefix>> \o log_error)
    ELSE output

LogAt(step) ==
    /\ logger.pc = step
    /\ UNCHANGED <<replacements, runvars, docvars, pdt, merge, gsr>>

InitLog ==
    /\ logger = [pc            |-> "ready",
                 error_count   |-> 0,
                 hist          |-> <<>>,
                 success       |-> FALSE,
                 error_message |-> <<>>,
                 tool_output   |-> PyNoneValue,
                 output        |-> PyNoneValue,
                 log_success   |-> FALSE,
                 log_error     |-> <<>>,
                 stderr        |-> <<>>,
                 exc           |-> NoExc,
                 propagated    |-> NoExc,
                 log_calls     |-> 0,
                 logged        |-> [success |-> FALSE, error_message |-> <<>>]]
    /\ replacements = <<>>
    /\ runs = <<>>
    /\ full_text = <<>>
    /\ pc = "none"
    /\ idx = 0
    /\ runs0 = <<>>
    /\ runs1 = <<>>
    /\ written = {}
    /\ doc = NoDoc
    /\ doc0 = NoDoc
    /\ stage = "none"
    /\ sec = 0
    /\ pdt = Idle
    /\ merge = Idle
    /\ gsr = Idle

\* mcp_logging.py, lines 101-108: the tool body returns a value
ToolReturns ==
    /\ LogAt("ready")
    /\ Len(logger.hist) < MaxCalls
    /\ \E out \in ToolOutputs :
          logger' = [logger EXCEPT !.pc = "log", !.success = TRUE, !.error_message = <<>>,
                                   !.exc = NoExc,
                                   !.tool_output = out, !.output = out,
                                   !.log_success = FALSE, !.log_error = <<>>,
                                   !.stderr = <<>>]

\* mcp_logging.py, lines 109-112: the tool body raises
ToolRaises ==
    /\ LogAt("ready")
    /\ Len(logger.hist) < MaxCalls
    /\ \E e \in ToolExceptions :
          logger' = [logger EXCEPT !.pc = "log", !.success = FALSE,
                                   !.error_message = ErrorMessage(e),
                                   !.exc = e,
                                   !.tool_output = PyNoneValue, !.output = PyNoneValue,
                                   !.log_success = FALSE, !.log_error = <<>>,
                                   !.stderr = <<>>]

\* logging_db.py, lines 83-84
LogDisabled ==
    /\ LogAt("log")
    /\ Disabled(logger)
    /\ logger' = LogEnd(logger, FALSE, DisabledMessage, FALSE, FALSE)

\* logging_db.py, lines 86-179: the request is sent and answered with success
LogSent ==
    /\ LogAt("log")
    /\ ~Disabled(logger)
    /\ logger' = [LogEnd(logger, TRUE, <<>>, TRUE, TRUE) EXCEPT !.error_count = 0]

\* logging_db.py, lines 163-187: requests.post or raise_for_status raises a
\* RequestException
LogRequestFailed ==
    /\ LogAt("log")
    /\ ~Disabled(logger)
    /\ logger' = [LogEnd(logger, FALSE, <<"API request failed: ", "ConnectionError">>,
                         TRUE, TRUE)
                      EXCEPT !.error_count = @ + 1]

\* logging_db.py, lines 86-162 and 189-193: another exception, raised before
\* the request is sent
LogUnexpected ==
    /\ LogAt("log")
    /\ ~Disabled(logger)
    /\ logger' = [LogEnd(logger, FALSE, <<"Unexpected error: ", "TypeError">>, TRUE, FALSE)
                      EXCEPT !.error_count = @ + 1]

\* mcp_logging.py, lines 137-148: the warning, then return output or the
\* propagation of the tool's exception
WrapperFinish ==
    /\ LogAt("logged")
    /\ logger' = [logger EXCEPT
          !.pc = IF logger.exc = NoExc THEN "returned" ELSE "raised",
          !.propagated = logger.exc,
          !.output = WrapperOutput(logger.output, logger.success,
                                   logger.log_success, logger.log_error),
          !.stderr = IF ~logger.log_success /\ logger.success /\ logger.output.type # "str"
                     THEN <<WarningPrefix>> \o logger.log_error
                     ELSE <<>>]

\* the wrapped tool is invoked again
NextCall ==
    /\ logger.pc \in {"returned", "raised"}
    /\ Len(logger.hist) < MaxCalls
    /\ logger' = [logger EXCEPT !.pc = "ready", !.log_calls = 0, !.propagated = NoExc]
    /\ UNCHANGED <<replacements, runvars, docvars, pdt, merge, gsr>>

NextLog ==
    \/ ToolReturns
    \/ ToolRaises
    \/ LogDisabled
    \/ LogSent
    \/ LogRequestFailed
    \/ LogUnexpected
    \/ WrapperFinish
    \/ NextCall

SpecLog == InitLog /\ [][NextLog]_vars

\* the k-th call of log_tool_usage was an attempt that failed
FailedAttempt(k) == logger.hist[k].attempted /\ ~logger.hist[k].ok

\* MaxErrors failed attempts in a row end at call j
FailedRun(j) == j >= MaxErrors /\ \A i \in (j - MaxErrors + 1)..j : FailedAttempt(i)

\* C14: after 5 consecutive failed attempts every later call of log_tool_usage
\* returns (False, disabled message) without a request; a call is refused only
\* after such a run of failures; a successful send sets the counter to 0.
C14_CutOff ==
    /\ \A k \in 1..Len(logger.hist) :
          LET h == logger.hist[k]
          IN  /\ (\E j \in 1..(k - 1) : FailedRun(j)) =>
                    /\ ~h.ok
                    /\ h.msg = DisabledMessage
                    /\ ~h.attempted
                    /\ ~h.sent
              /\ ~h.attempted => \E j \in 1..(k - 1) : FailedRun(j)
              /\ h.sent => h.attempted
    /\ (logger.pc = "logged" /\ logger.log_success) => logger.error_count = 0

\* a failure, a success, five failures, and then a refused call
C14_Witness ==
    /\ Len(logger.hist) = 8
    /\ FailedAttempt(1)
    /\ logger.hist[2].ok
    /\ FailedRun(7)
    /\ ~logger.hist[8].attempted
    /\ logger.error_count = MaxErrors

\* C15: a wrapped tool that returns normally returns to the caller whatever
\* the logging call did; the value returned is the tool's output when logging
\* succeeded, the output followed by a warning when logging failed and the
\* output is a string, and the unchanged output when logging failed and the
\* output is no string.
C15_NonBlocking ==
    /\ logger.pc = "raised" => ~logger.success
    /\ (logger.pc = "returned") =>
          /\ logger.success
          /\ logger.log_success => logger.output = logger.tool_output
          /\ (~logger.log_success /\ logger.tool_output.type = "str") =>
                /\ logger.output.type = "str"
                /\ logger.output.val =
                      logger.tool_output.val \o <<WarningPrefix>> \o logger.log_error
          /\ (~logger.log_success /\ logger.tool_output.type # "str") =>
                logger.output = logger.tool_output

\* logging is disabled and a tool that returned a string returns it with the warning
C15_Witness ==
    /\ logger.pc = "returned"
    /\ logger.tool_output = PyStr(<<"report written">>)
    /\ logger.log_error = DisabledMessage
    /\ logger.output = PyStr(<<"report written", WarningPrefix>> \o DisabledMessage)

\* one invocation of the wrapped tool has ended
WrapperDone == logger.pc \in {"returned", "raised"}

\* the call of log_tool_usage is made once, after the tool body, and never
\* before it has finished
OneLogCall ==
    /\ logger.pc \in {"ready", "log"} => logger.log_calls = 0
    /\ logger.pc = "logged" => logger.log_calls = 1
    /\ WrapperDone =>
          /\ logger.log_calls = 1
          /\ logger.logged.success = (logger.pc = "returned")
          /\ logger.pc = "returned" =>
                (logger.propagated = NoExc /\ logger.logged.error_message = <<>>)
          /\ logger.pc = "raised" =>
                (logger.exc # NoExc /\ logger.propagated = logger.exc)

\* C24 as stated: each invocation of a wrapped tool makes exactly one call of
\* log_tool_usage, after the tool body has finished, with success = True
\* exactly when the tool returned; when the tool raises, the call is logged
\* with success = False and an error message naming the exception, and the
\* same exception propagates.
C24_LogsEveryRaise ==
    /\ OneLogCall
    /\ logger.pc = "raised" =>
          /\ logger.logged.error_message # <<>>
          /\ logger.logged.error_message[1] = logger.exc.name

\* C24, amended: as above, but the error message names the exception only
\* when it derives from Exception; for an exception that derives from
\* BaseException only the logged error message is empty.
C24_OneLogCall ==
    /\ OneLogCall
    /\ logger.pc = "raised" =>
          logger.logged.error_message =
              IF logger.exc.is_exception
              THEN <<logger.exc.name, ": ", logger.exc.text>>
              ELSE <<>>

\* a tool raised ValueError("bad input"): one call logged it, and it propagated
C24_Witness ==
    /\ logger.pc = "raised"
    /\ logger.log_calls = 1
    /\ logger.logged = [success |-> FALSE,
                        error_message |-> <<"ValueError", ": ", "bad input">>]
    /\ logger.propagated.name = "ValueError"

\* C26: the error counter stays within 0.._max_errors, and the disabled state
\* is absorbing: once the counter is _max_errors no step changes it and no
\* later call of log_tool_usage passes the cut-off or sends a request.
C26_DisabledAbsorbing ==
    [][/\ logger.error_count \in 0..MaxErrors
       /\ logger'.error_count \in 0..MaxErrors
       /\ logger.error_count = MaxErrors =>
             /\ logger'.error_count = MaxErrors
             /\ \A k \in (Len(logger.hist) + 1)..Len(logger'.hist) :
                    /\ ~logger'.hist[k].attempted
                    /\ ~logger'.hist[k].sent
                    /\ ~logger'.hist[k].ok
      ]_vars

\* five failures disabled the logger and two later calls were refused
C26_Witness ==
    /\ Len(logger.hist) = 7
    /\ FailedRun(5)
    /\ ~logger.hist[6].attempted
    /\ ~logger.hist[7].attempted
    /\ logger.error_count = MaxErrors

----------------------------------------------------------------------------
(* generate_shortlist_report (server.py, lines 616-771).                     *)

Json == <<".", "j", "s", "o", "n">>

AssessmentMark == <<"_", "a", "s", "s", "e", "s", "s", "m", "e", "n", "t", "_">>

MetadataPrefix == <<"m", "e", "t", "a", "d", "a", "t", "a", "_">>

MergedPrefix == <<"m", "e", "r", "g", "e", "d", "_">>

\* the characters of the file names, in code point order
Alphabet ==
    <<" ", "-", ".", "0", "1", "2", "3", "4", "5", "6", "7", "8", "9",
      "A", "B", "C", "D", "X", "_", "a", "c", "d", "e", "g", "i", "j", "m", "n", "o", "r",
      "s", "t">>

Ord(c) == CHOOSE i \in 1..Len(Alphabet) : Alphabet[i] = c

\* str.isalnum for the characters of Alphabet
IsAlnum(c) == c \notin {" ", "-", ".", "_"}

\* "".join(c for c in name if c.isalnum() or c in (' ', '-', '_'))
RECURSIVE KeepNameChars(_)
KeepNameChars(name) ==
    IF name = <<>> THEN <<>>
    ELSE (IF IsAlnum(Head(name)) \/ Head(name) \in {" ", "-", "_"}
          THEN <<Head(name)>> ELSE <<>>) \o KeepNameChars(Tail(name))

\* str.rstrip()
RECURSIVE RStrip(_)
RStrip(t) ==
    IF t # <<>> /\ t[Len(t)] = " " THEN RStrip(SubSeq(t, 1, Len(t) - 1)) ELSE t

\* str.replace(' ', '_')
Underscored(t) == [i \in 1..Len(t) |-> IF t[i] = " " THEN "_" ELSE t[i]]

\* server.py, lines 495, 562, 658, 704
CleanName(full_name) == Underscored(RStrip(KeepNameChars(full_name)))

StartsWith(t, prefix) ==
    Len(prefix) <= Len(t) /\ SubSeq(t, 1, Len(prefix)) = prefix

EndsWith(t, suffix) ==
    Len(suffix) <= Len(t) /\ SubSeq(t, Len(t) - Len(suffix) + 1, Len(t)) = suffix

\* Path.glob of the pattern prefix*suffix, on a file name
Glob(prefix, suffix, name) ==
    /\ Len(prefix) + Len(suffix) <= Len(name)
    /\ StartsWith(name, prefix)
    /\ EndsWith(name, suffix)

\* comparison of str (and of Path) values
RECURSIVE Less(_, _)
Less(a, b) ==
    IF a = <<>> THEN b # <<>>
    ELSE IF b = <<>> THEN FALSE
    ELSE IF Head(a) = Head(b) THEN Less(Tail(a), Tail(b))
    ELSE Ord(Head(a)) < Ord(Head(b))

\* sorted(files), by name
RECURSIVE Sorted(_)
Sorted(files) ==
    IF files = {} THEN <<>>
    ELSE LET first == CHOOSE f \in files : \A g \in files \ {f} : Less(f.name, g.name)
         IN  <<first>> \o Sorted(files \ {first})

\* the orders in which a directory listing may yield a set of files
Orders(files) ==
    {o \in [1..Cardinality(files) -> files] :
        \A i, j \in 1..Cardinality(files) : i # j => o[i] # o[j]}

\* full names of candidates; they clean to A, B, B_C, D and candidate_2
FullNames ==
    {<<"A">>, <<"B">>, <<"B", " ", "C">>, <<"D", ".", " ">>,
     <<"c", "a", "n", "d", "i", "d", "a", "t", "e", " ", "2">>}

\* datetime.now().strftime('%Y%m%d_%H%M%S') (server.py, lines 495 and 594)
Stamp(second) ==
    <<"2", "0", "2", "5", "0", "1", "0", "1", "_", "0", "0", "0", "0", "0", second>>

\* server.py, line 496: the record written by generate_individual_candidate
CandidateFile(full_name) ==
    [name      |-> CleanName(full_name) \o <<"_">> \o Stamp("1") \o Json,
     kind      |-> "candidate",
     full_name |-> full_name]

\* server.py, line 595: the record written by generate_candidate_assessment
AssessmentFile(full_name) ==
    [name      |-> CleanName(full_name) \o AssessmentMark \o Stamp("2") \o Json,
     kind      |-> "assessment",
     full_name |-> full_name]

\* server.py, line 118
MetadataFile ==
    [name |-> MetadataPrefix \o <<"X", "_", "1">> \o Json, kind |-> "metadata",
     full_name |-> <<>>]

\* utils/merge_data.py, line 252: the output of an earlier merge
MergedFile ==
    [name |-> MergedPrefix \o <<"X">> \o Json, kind |-> "merged", full_name |-> <<>>]

\* project folders: metadata, up to MaxCandidates candidates, up to
\* MaxCandidates + 1 assessments (of these candidates or of others), and
\* possibly the merged data of an earlier report
Folders ==
    {{MetadataFile} \cup old
        \cup {CandidateFile(n) : n \in cs} \cup {AssessmentFile(n) : n \in as} :
     old \in {{}, {MergedFile}},
     cs \in {c \in SUBSET FullNames : Cardinality(c) <= MaxCandidates},
     as \in {a \in SUBSET FullNames : Cardinality(a) <= MaxCandidates + 1}}

\* server.py, lines 641-646
ListCandidateFiles(folder) ==
    {f \in folder :
        /\ EndsWith(f.name, Json)
        /\ ~StartsWith(f.name, MetadataPrefix)
        /\ ~StartsWith(f.name, MergedPrefix)
        /\ ~In(AssessmentMark, f.name)}

\* server.py, line 659
AssessmentFilesFor(folder, candidate_name) ==
    {f \in folder : Glob(CleanName(candidate_name) \o AssessmentMark, Json, f.name)}

----------------------------------------------------------------------------
(* merge_candidates_data (utils/merge_data.py), called at server.py line 671. *)

AssessmentSuffix == SubSeq(AssessmentMark, 1, Len(AssessmentMark) - 1) \o Json

\* lines 28-34: candidate_files of get_json_files
GetCandidateFiles(folder) ==
    {f \in folder :
        /\ EndsWith(f.name, Json)
        /\ ~StartsWith(f.name, MetadataPrefix)
        /\ ~StartsWith(f.name, MergedPrefix)
        /\ ~In(AssessmentMark, f.name)
        /\ ~EndsWith(f.name, AssessmentSuffix)}

\* lines 37-40: assessment_files of get_json_files
GetAssessmentFiles(folder) ==
    {f \in folder :
        /\ EndsWith(f.name, Json)
        /\ In(AssessmentMark, f.name) \/ EndsWith(f.name, AssessmentSuffix)}

\* str.split('_')
RECURSIVE Split(_)
Split(t) ==
    IF \E k \in 1..Len(t) : t[k] = "_"
    THEN LET k == Min({j \in 1..Len(t) : t[j] = "_"})
         IN  <<SubSeq(t, 1, k - 1)>> \o Split(SubSeq(t, k + 1, Len(t)))
    ELSE <<t>>

\* '_'.join(parts)
RECURSIVE JoinParts(_)
JoinParts(parts) ==
    IF parts = <<>> THEN <<>>
    ELSE IF Len(parts) = 1 THEN parts[1]
    ELSE parts[1] \o <<"_">> \o JoinParts(Tail(parts))

\* str.isdigit for the characters of Alphabet
IsDigit(t) == t # <<>> /\ \A k \in 1..Len(t) : Ord(t[k]) \in Ord("0")..Ord("9")

\* the value of a string of decimal digits
RECURSIVE Decimal(_)
Decimal(t) ==
    IF t = <<>> THEN 0
    ELSE 10 * Decimal(SubSeq(t, 1, Len(t) - 1)) + (Ord(t[Len(t)]) - Ord("0"))

\* the return value of line 60 and of line 62
NoNumber == 999

\* a plausible slip: the fallback is 0, which puts files without number first
ExtractCandidateNumberZero(name) ==
    LET parts == Split(name)
    IN  IF Len(parts) >= 2 /\ parts[1] = <<"c", "a", "n", "d", "i", "d", "a", "t", "e">>
        THEN IF IsDigit(parts[2]) THEN Decimal(parts[2])
             ELSE IF parts[2] # <<>> /\ Head(parts[2]) = "-" /\ IsDigit(Tail(parts[2]))
             THEN 0 - Decimal(Tail(parts[2]))
             ELSE 0
        ELSE 0

\* lines 54-62: extract_candidate_number on a base name; int() takes decimal
\* digits with an optional sign and raises ValueError on anything else
ExtractCandidateNumber(name) ==
    LET parts == Split(name)
    IN  IF Len(parts) >= 2 /\ parts[1] = <<"c", "a", "n", "d", "i", "d", "a", "t", "e">>
        THEN IF IsDigit(parts[2]) THEN Decimal(parts[2])
             ELSE IF parts[2] # <<>> /\ Head(parts[2]) = "-" /\ IsDigit(Tail(parts[2]))
             THEN 0 - Decimal(Tail(parts[2]))
             ELSE NoNumber
        ELSE NoNumber

\* line 126: list.sort(key=extract_candidate_number), a stable sort
RECURSIVE SortCandidates(_)
SortCandidates(files) ==
    IF Len(files) <= 1 THEN files
    ELSE LET front == SortCandidates(SubSeq(files, 1, Len(files) - 1))
             last  == files[Len(files)]
             keep  == {k \in 0..Len(front) :
                          \A j \in 1..k : ExtractCandidateNumber(front[j].name)
                                              <= ExtractCandidateNumber(last.name)}
             n     == CHOOSE k \in keep : \A j \in keep : j <= k
         IN  SubSeq(front, 1, n) \o <<last>> \o SubSeq(front, n + 1, Len(front))

\* lines 78-87: candidate_name, the parts of the base name before the date
RECURSIVE NameParts(_)
NameParts(parts) ==
    IF parts = <<>> THEN <<>>
    ELSE IF Len(Head(parts)) = 8 /\ IsDigit(Head(parts)) THEN <<>>
    ELSE <<Head(parts)>> \o NameParts(Tail(parts))

CandidateName(name) == JoinParts(NameParts(Split(Replace(name, Json, <<>>))))

\* no file: the None of line 95
NoFile == [name |-> <<>>, kind |-> "none", full_name |-> <<>>]

\* a plausible slip: the last matching assessment file is returned
FindAssessmentForCandidateLast(candidate_file, assessment_files) ==
    LET hits == {k \in 1..Len(assessment_files) :
                    /\ In(CandidateName(candidate_file.name), assessment_files[k].name)
                    /\ In(AssessmentMark, assessment_files[k].name)}
    IN  IF hits = {} THEN NoFile
        ELSE assessment_files[CHOOSE k \in hits : \A j \in hits : j <= k]

\* lines 64-95: find_assessment_for_candidate
FindAssessmentForCandidate(candidate_file, assessment_files) ==
    LET hits == {k \in 1..Len(assessment_files) :
                    /\ In(CandidateName(candidate_file.name), assessment_files[k].name)
                    /\ In(AssessmentMark, assessment_files[k].name)}
    IN  IF hits = {} THEN NoFile ELSE assessment_files[Min(hits)]

\* lines 126-154: the candidate whose fields get the prefix c{i}_ and the
\* assessment merged into its data, for i = 1, 2, ...
MergeFiles(candidate_files, assessment_files) ==
    LET sorted == SortCandidates(candidate_files)
    IN  [i \in 1..Len(sorted) |->
            [candidate  |-> sorted[i],
             assessment |-> FindAssessmentForCandidate(sorted[i], assessment_files)]]

\* a plausible slip: the candidate data are merged before the assessments are checked
GsrAfterMergeFirst(step) ==
    CASE step = "mkdir"          -> "list"
      [] step = "list"           -> "merge_data"
      [] step = "merge_data"     -> "check"
      [] step = "check"          -> "overview"
      [] step = "overview"       -> "colors"
      [] step = "colors"         -> "candidate_docs"
      [] step = "candidate_docs" -> "merge_docs"
      [] step = "merge_docs"     -> "colors_final"
      [] step = "colors_final"   -> "return"

\* the statement that follows each statement (or exhausted loop) of lines 636-764
GsrAfter(step) ==
    CASE step = "mkdir"          -> "list"
      [] step = "list"           -> "check"
      [] step = "check"          -> "merge_data"
      [] step = "merge_data"     -> "overview"
      [] step = "overview"       -> "colors"
      [] step = "colors"         -> "candidate_docs"
      [] step = "candidate_docs" -> "merge_docs"
      [] step = "merge_docs"     -> "colors_final"
      [] step = "colors_final"   -> "return"

GsrAt(step) ==
    /\ gsr.pc = step
    /\ UNCHANGED <<replacements, runvars, docvars, pdt, merge, logger>>

\* the statement completes; a loop starts at its first element
GsrGo(g, step) == [g EXCEPT !.pc = GsrAfter(step), !.i = 1]

\* a return statement; the text of the f-string and the values it formats
GsrReturn(g, text, args) ==
    [g EXCEPT !.pc = "returned", !.result = [text |-> text, args |-> args]]

\* a call of one of the functions the tool orchestrates
GsrCall(g, callee) == [g EXCEPT !.events = Append(@, callee)]

InitGsr ==
    /\ \E folder \in Folders :
          gsr = [pc                  |-> "mkdir",
                 folder              |-> folder,
                 output_folder       |-> FALSE,
                 candidate_files     |-> <<>>,
                 i                   |-> 1,
                 without_assessments |-> <<>>,
                 candidate_doc_paths |-> <<>>,
                 listing             |-> <<>>,
                 merged              |-> <<>>,
                 events              |-> <<>>,
                 result              |-> [text |-> "", args |-> <<>>]]
    /\ replacements = <<>>
    /\ runs = <<>>
    /\ full_text = <<>>
    /\ pc = "none"
    /\ idx = 0
    /\ runs0 = <<>>
    /\ runs1 = <<>>
    /\ written = {}
    /\ doc = NoDoc
    /\ doc0 = NoDoc
    /\ stage = "none"
    /\ sec = 0
    /\ pdt = Idle
    /\ merge = Idle
    /\ logger = Idle

\* lines 636-638
GsrMkdir ==
    /\ GsrAt("mkdir")
    /\ gsr' = [GsrGo(gsr, "mkdir") EXCEPT !.output_folder = TRUE]

\* lines 641-649: the listing yields the candidate files in some order
GsrList ==
    /\ GsrAt("list")
    /\ \E order \in Orders(ListCandidateFiles(gsr.folder)) :
          gsr' = IF order = <<>>
                 THEN GsrReturn(gsr, "Error: No candidate files found in ", <<>>)
                 ELSE [GsrGo(gsr, "list") EXCEPT !.candidate_files = order]

\* lines 652-668: one iteration of the loop; after the last one, the return
\* of the names collected
GsrCheck ==
    /\ GsrAt("check")
    /\ gsr' =
          IF gsr.i <= Len(gsr.candidate_files)
          THEN LET candidate_name == gsr.candidate_files[gsr.i].full_name
               IN  [gsr EXCEPT
                       !.i = @ + 1,
                       !.without_assessments =
                           IF AssessmentFilesFor(gsr.folder, candidate_name) = {}
                           THEN Append(@, candidate_name) ELSE @]
          ELSE IF gsr.without_assessments # <<>>
          THEN GsrReturn(gsr, "Error: Missing assessments for: ", gsr.without_assessments)
          ELSE GsrGo(gsr, "check")

\* lines 671-675: merge_candidates_data lists the folder (glob.glob yields
\* the files in some order), merges and writes the merged data, or fails
GsrMergeData ==
    /\ GsrAt("merge_data")
    /\ LET g == GsrCall(gsr, "merge_candidates_data")
       IN  \/ \E candidate_files \in Orders(GetCandidateFiles(gsr.folder)),
                 assessment_files \in Orders(GetAssessmentFiles(gsr.folder)) :
                  gsr' = [GsrGo(g, "merge_data") EXCEPT
                              !.folder = @ \cup {MergedFile},
                              !.listing = candidate_files,
                              !.merged = MergeFiles(candidate_files, assessment_files)]
           \/ gsr' = GsrReturn(g, "Error merging data: ", <<>>)

\* lines 678-686
GsrOverview ==
    /\ GsrAt("overview")
    /\ LET g == GsrCall(gsr, "process_document_template")
       IN  \/ gsr' = GsrGo(g, "overview")
           \/ gsr' = GsrReturn(g, "Error generating overview: ", <<>>)

\* line 689: apply_table_colors returns, or raises and line 770 returns
GsrColors ==
    /\ GsrAt("colors")
    /\ LET g == GsrCall(gsr, "apply_table_colors")
       IN  \/ gsr' = GsrGo(g, "colors")
           \/ gsr' = GsrReturn(g, "Error: ", <<>>)

\* lines 693-744: one iteration of the loop over sorted(candidate_files), or its end
GsrCandidateDoc ==
    /\ GsrAt("candidate_docs")
    /\ LET files == {gsr.candidate_files[k] : k \in 1..Len(gsr.candidate_files)}
           g     == GsrCall(gsr, "process_document_template")
       IN  IF gsr.i > Len(gsr.candidate_files)
           THEN gsr' = GsrGo(gsr, "candidate_docs")
           ELSE LET candidate_file == Sorted(files)[gsr.i]
                IN  \/ gsr' = [g EXCEPT !.i = @ + 1,
                                        !.candidate_doc_paths =
                                            Append(@, candidate_file.name)]
                    \/ gsr' = GsrReturn(g, "Error generating document for ",
                                        <<candidate_file.full_name>>)

\* lines 747-759
GsrMergeDocs ==
    /\ GsrAt("merge_docs")
    /\ LET g == GsrCall(gsr, "merge_shortlist_documents")
       IN  \/ gsr' = GsrGo(g, "merge_docs")
           \/ gsr' = GsrReturn(g, "Error merging documents: ", <<>>)

\* line 762
GsrColorsFinal ==
    /\ GsrAt("colors_final")
    /\ LET g == GsrCall(gsr, "apply_table_colors")
       IN  \/ gsr' = GsrGo(g, "colors_final")
           \/ gsr' = GsrReturn(g, "Error: ", <<>>)

\* lines 764-768
GsrSucceed ==
    /\ GsrAt("return")
    /\ gsr' = GsrReturn(gsr, "SUCCESS - Shortlist report complete!",
                        gsr.candidate_doc_paths)

NextGsr ==
    \/ GsrMkdir
    \/ GsrList
    \/ GsrCheck
    \/ GsrMergeData
    \/ GsrOverview
    \/ GsrColors
    \/ GsrCandidateDoc
    \/ GsrMergeDocs
    \/ GsrColorsFinal
    \/ GsrSucceed

SpecGsr == InitGsr /\ [][NextGsr]_vars

\* the candidates of the folder of the call that have no assessment record
Unassessed ==
    {c \in gsr.folder :
        /\ c.kind = "candidate"
        /\ ~\E a \in gsr.folder :
              a.kind = "assessment" /\ CleanName(a.full_name) = CleanName(c.full_name)}

\* the elements of a sequence
Range(q) == {q[k] : k \in 1..Len(q)}

\* C16: when a candidate of the project folder has no assessment file,
\* generate_shortlist_report returns the Missing assessments error, which
\* lists the candidates without assessment, each once, and no others; and it
\* has then not merged candidate data, generated a document or merged documents.
C16_AssessmentsRequired ==
    Unassessed # {} =>
        /\ gsr.events = <<>>
        /\ gsr.candidate_doc_paths = <<>>
        /\ gsr.pc \in {"mkdir", "list", "check", "returned"}
        /\ gsr.pc = "returned" =>
              /\ gsr.result.text = "Error: Missing assessments for: "
              /\ Range(gsr.result.args) = {c.full_name : c \in Unassessed}
              /\ Len(gsr.result.args) = Cardinality(Unassessed)

\* two candidates, of which only the one named "B C" lacks an assessment
C16_Witness ==
    /\ gsr.pc = "returned"
    /\ Cardinality({c \in gsr.folder : c.kind = "candidate"}) = 2
    /\ Cardinality(Unassessed) = 1
    /\ gsr.result = [text |-> "Error: Missing assessments for: ", args |-> <<<<"B", " ", "C">>>>]

\* the word that extract_candidate_number looks for
CandidateWord == <<"c", "a", "n", "d", "i", "d", "a", "t", "e">>

\* the clean name of the file is "candidate" or begins with "candidate_"
CandidateLike(f) ==
    \/ CleanName(f.full_name) = CandidateWord
    \/ StartsWith(CleanName(f.full_name), CandidateWord \o <<"_">>)

C27_NumberingMatchesProfiles ==
    \A i \in 1..Len(gsr.candidate_doc_paths) :
        gsr.candidate_doc_paths[i] = gsr.merged[i].candidate.name

\* C30: the assessment merged into a candidate's data is a file named
\* <Name>_assessment_<timestamp>.json with the clean name of that candidate.
C30_OwnAssessment ==
    \A i \in 1..Len(gsr.merged) :
        gsr.merged[i].assessment # NoFile =>
            /\ StartsWith(gsr.merged[i].assessment.name,
                          CleanName(gsr.merged[i].candidate.full_name) \o AssessmentMark)
            /\ gsr.merged[i].assessment.full_name = gsr.merged[i].candidate.full_name

----------------------------------------------------------------------------
(* Properties of one splice of the cross-run loop of replace_text_in_runs.   *)

\* the token of the iteration at hand occurs in the text of the runs
SpliceCase ==
    /\ pc = "cross"
    /\ idx <= Len(replacements)
    /\ Occurs(replacements[idx].placeholder, Join(runs))

\* the 0-based span [SpanStart, SpanEnd) of the occurrence that is spliced
SpanStart == Min(Occurrences(replacements[idx].placeholder, Join(runs))) - 1

SpanEnd == SpanStart + Len(replacements[idx].placeholder)

\* the run that holds the first character of the span
FirstRun ==
    CHOOSE i \in 1..Len(runs) :
        Offset(runs, i) <= SpanStart /\ SpanStart < Offset(runs, i) + Len(runs[i])

\* C17: a splice of the occurrence at [s, e) leaves the first run that
\* overlaps [s, e) with its text before s, then the whole value, then its
\* text from e on; the text of the scope is the old text with the span
\* replaced by the value once, and no other run grows.
C17_FirstAffectedRun ==
    [][SpliceCase =>
          LET value == replacements[idx].value
              text  == runs[FirstRun]
              start == Offset(runs, FirstRun)
          IN  /\ runs'[FirstRun] =
                    Slice(text, 0, SpanStart - start) \o value
                        \o Slice(text, Min2(SpanEnd - start, Len(text)), Len(text))
              /\ Join(runs') =
                    Slice(Join(runs), 0, SpanStart) \o value
                        \o Slice(Join(runs), SpanEnd, Len(Join(runs)))
              /\ \A i \in (1..Len(runs)) \ {FirstRun} : Len(runs'[i]) <= Len(runs[i])
      ]_vars

\* the token of "a{", "a}" was spliced: the first run keeps "a" and gets the value
C17_Witness ==
    /\ pc = "returned"
    /\ replacements = <<Item(TokA, <<"X">>)>>
    /\ runs0 = <<<<"a", "{">>, <<"a", "}">>>>
    /\ written = {1, 2}
    /\ runs = <<<<"a", "X">>, <<>>>>

\* C18: a splice of the occurrence at [s, e) leaves every run after the first
\* affected one with its characters outside [s, e), in order, and every run
\* that does not overlap [s, e) with its text.
C18_SubsequentRuns ==
    [][SpliceCase =>
          \A i \in (1..Len(runs)) \ {FirstRun} :
              LET start == Offset(runs, i)
                  n     == Len(runs[i])
              IN  IF start < SpanEnd /\ start + n > SpanStart
                  THEN runs'[i] = Slice(runs[i], 0, Clamp(SpanStart - start, n))
                                      \o Slice(runs[i], Clamp(SpanEnd - start, n), n)
                  ELSE runs'[i] = runs[i]
      ]_vars

\* the token of "{", "a", "}a" was spliced: the middle run is emptied and the
\* last run keeps the "a" that follows the token
C18_Witness ==
    /\ pc = "returned"
    /\ replacements = <<Item(TokA, <<"X">>)>>
    /\ runs0 = <<<<"{">>, <<"a">>, <<"}", "a">>>>
    /\ written = {1, 2, 3}
    /\ runs = <<<<"X">>, <<>>, <<"a">>>>

----------------------------------------------------------------------------
(* Properties of the state the cross-run loop carries between iterations.    *)

\* the runs that overlap the span of the occurrence, by the cumulative sums of
\* the lengths of the current run texts
SpanRuns ==
    {i \in 1..Len(runs) :
        Offset(runs, i) < SpanEnd /\ Offset(runs, i) + Len(runs[i]) > SpanStart}

\* C21: at the start of every iteration of the cross-run loop full_text is the
\* concatenation of the current run texts, and it is so again after the
\* iteration; the runs an iteration assigns are those whose range, taken as
\* the cumulative sums of the current run lengths, overlaps the first
\* occurrence of the token in the current text, so a token is located against
\* the texts earlier splices left.
C21_FreshOffsets ==
    [][pc = "cross" =>
          /\ full_text = Join(runs)
          /\ pc' = "cross" => full_text' = Join(runs')
          /\ SpliceCase => written' = written \cup SpanRuns
          /\ (idx <= Len(replacements) /\ ~SpliceCase) => runs' = runs
      ]_vars

\* "{a", "}" with {a} -> "{b}" and {b} -> "X": the second token is found in the
\* text the first splice wrote
C21_Witness ==
    /\ pc = "returned"
    /\ replacements = <<Item(TokA, TokB), Item(TokB, <<"X">>)>>
    /\ runs0 = <<<<"{", "a">>, <<"}">>>>
    /\ written = {1, 2}
    /\ runs = <<<<"X">>, <<>>>>

\* every occurrence of a mapped token in the original text of the scope lies
\* within a single run
AllWithinOneRun ==
    \A k \in 1..Len(replacements) :
        \A p \in Occurrences(replacements[k].placeholder, Join(runs0)) :
            WithinOneRun(runs0, p - 1, p - 1 + Len(replacements[k].placeholder))

\* C25: in a scope in which every token occurrence lies within a single run,
\* no iteration of the cross-run loop changes a run: the runs the call leaves
\* are those the run-local pass left.
C25_CrossPassOnlySplit ==
    [][(pc = "cross" /\ AllWithinOneRun) => runs' = runs]_vars

====
